---- MODULE Spec2Model ----
(***************************************************************************)
(* Splitter contract: a pool of 10,000 ownership units, distribution of    *)
(* deposited tokens to the holders in proportion to their units, and a     *)
(* marketplace for the units.                                              *)
(*                                                                         *)
(* Every contract entry point is one atomic action.  An entry point is     *)
(* translated as a function from the store before the call to an outcome   *)
(* (error code, store after the call, token transfers made).  A call that  *)
(* returns an error, or whose token transfer traps, is rolled back by the  *)
(* host: the store is left as it was and only `last` records the error.    *)
(***************************************************************************)
EXTENDS Integers, Sequences, FiniteSets, TLC

\* ---------------------------------------------------------------- identities
Users == {"a1", "a2", "a3"}
POOL == "pool"
DEFAULT_COMMISSION_ADDRESS == "dflt"
Addr == Users \cup {POOL, DEFAULT_COMMISSION_ADDRESS}
Tokens == {"t1", "t2"}

\* ---------------------------------------------------------- program constants
TOTAL_SHARES == 10000
BPS_DENOMINATOR == 10000
BUY_COMMISSION_BPS == 150
DISTRIBUTION_COMMISSION_BPS == 50
MAX_COMMISSION_BPS == 5000

\* --------------------------------------------------------------------- bounds
MaxSteps == 5
InitialFunds == 1000000
MaxPoolBalance == 1000000000
MaxDistSteps == 4
MaxMarketSteps == 4
MaxPolicySteps == 3
MaxFundsSteps == 4
MaxErrSteps == 3
\* The integers of the code are i128.  The model's integers are narrower, so
\* the largest value of the code's integer type is stood for by
\* IntQuotMax * 10000 + 9999: every amount, price and balance of the model
\* fits, a product may not.
IntQuotMax == 1000000000

VARIABLES
    config,            \* instance storage, DataKey::Config: <<>> or <<[admin, mutable]>>
    commission,        \* instance storage, DataKey::Commission: <<>> or <<CommissionConfig>>
    shares,            \* DataKey::Share(holder) -> units; the domain is the set of records
    shareholders,      \* DataKey::Shareholders: the holder-order sequence
    allocation,        \* DataKey::Allocation(holder, token) -> amount
    total_allocation,  \* DataKey::TotalAllocation(token) -> amount
    listings,          \* DataKey::SaleListing(seller) -> listing
    active_listings,   \* DataKey::ActiveListings: sequence of sellers
    balance,           \* the token contracts' ledgers: token -> address -> amount
    last,              \* the last call: entry point, arguments, result, transfers made
    steps              \* number of successful calls made since init

vars == <<config, commission, shares, shareholders, allocation, total_allocation,
          listings, active_listings, balance, last, steps>>

\* ------------------------------------------------------------ small utilities
Put(f, k, v) == [x \in (DOMAIN f) \cup {k} |-> IF x = k THEN v ELSE f[x]]

Del(f, k) == [x \in (DOMAIN f) \ {k} |-> f[x]]

Empty == [x \in {} |-> 0]

Range(s) == {s[i] : i \in 1..Len(s)}

\* Vec::remove(index), index counted from 1 here
RemoveAt(s, i) == [j \in 1..(Len(s) - 1) |-> IF j < i THEN s[j] ELSE s[j + 1]]

\* first index of a in s, 0 when absent (the `for (i, addr) ... break` scans)
RECURSIVE IndexFrom(_, _, _)
IndexFrom(s, a, i) ==
    IF i > Len(s) THEN 0
    ELSE IF s[i] = a THEN i
    ELSE IndexFrom(s, a, i + 1)

FirstIndex(s, a) == IndexFrom(s, a, 1)

RECURSIVE SumSeq(_, _)
SumSeq(s, i) == IF i > Len(s) THEN 0 ELSE s[i] + SumSeq(s, i + 1)

RECURSIVE SumFun(_, _)
SumFun(f, S) ==
    IF S = {} THEN 0
    ELSE LET x == CHOOSE y \in S : TRUE IN f[x] + SumFun(f, S \ {x})

\* Rust integer division truncates toward zero
TruncDiv(a, b) == IF a >= 0 THEN a \div b ELSE -((-a) \div b)

\* (a * b) / 10000 as the code computes it on i128.  The product is split
\* as (q * 10000 + r) * b so that no intermediate value leaves the range of
\* the model checker's integers; the result is the same integer.
MulDivBps(a, b) ==
    IF a >= 0 /\ b >= 0
    THEN (a \div BPS_DENOMINATOR) * b + ((a % BPS_DENOMINATOR) * b) \div BPS_DENOMINATOR
    ELSE TruncDiv(a * b, BPS_DENOMINATOR)

\* a * b fits the integer type (a, b >= 0): a * b <= IntQuotMax * 10000 + 9999,
\* decided on the quotient so that the product itself is never formed
mul_fits(a, b) ==
    IF a >= b THEN MulDivBps(a, b) <= IntQuotMax ELSE MulDivBps(b, a) <= IntQuotMax

\* ---------------------------------------------------------------- the store
Cur == [config |-> config, commission |-> commission, shares |-> shares,
        shareholders |-> shareholders, allocation |-> allocation,
        total_allocation |-> total_allocation, listings |-> listings,
        active_listings |-> active_listings, balance |-> balance]

Commit(st) ==
    /\ config' = st.config
    /\ commission' = st.commission
    /\ shares' = st.shares
    /\ shareholders' = st.shareholders
    /\ allocation' = st.allocation
    /\ total_allocation' = st.total_allocation
    /\ listings' = st.listings
    /\ active_listings' = st.active_listings
    /\ balance' = st.balance

\* outcome of a call
Ok(st, xfers) == [err |-> "Ok", st |-> st, xfers |-> xfers, dirty |-> TRUE]

\* an error return; dirty tells whether a write or a transfer preceded it
Err(st, e, dirty) == [err |-> e, st |-> st, xfers |-> <<>>, dirty |-> dirty]

\* ------------------------------------------------------------- ShareDataKey
save_share(st, shareholder, share) ==
    [st EXCEPT !.shares = Put(st.shares, shareholder, share)]

has_share(st, shareholder) == shareholder \in DOMAIN st.shares

\* remove_share leaving the record in the store
remove_share_kept(st, shareholder) == st

\* remove_share taking the holder's allocation records with the share record
remove_share_with_allocations(st, shareholder) ==
    [st EXCEPT !.shares = Del(st.shares, shareholder),
               !.allocation = [k \in {x \in DOMAIN st.allocation : x[1] # shareholder}
                                   |-> st.allocation[k]]]

remove_share(st, shareholder) ==
    [st EXCEPT !.shares = Del(st.shares, shareholder)]

save_shareholders(st, v) == [st EXCEPT !.shareholders = v]

remove_shareholders(st) == [st EXCEPT !.shareholders = <<>>]

\* ------------------------------------------------------------ ConfigDataKey
config_init(st, admin, mutable) ==
    [st EXCEPT !.config = <<[admin |-> admin, mutable |-> mutable]>>]

config_exists(st) == st.config # <<>>

\* lock_contract flipping the flag instead of clearing it
config_lock_contract_toggle(st) ==
    IF st.config # <<>>
    THEN [st EXCEPT !.config = <<[st.config[1] EXCEPT !.mutable = ~@]>>]
    ELSE st

config_lock_contract(st) ==
    IF st.config # <<>>
    THEN [st EXCEPT !.config = <<[st.config[1] EXCEPT !.mutable = FALSE]>>]
    ELSE st

\* returns the mutable flag (the code's name notwithstanding)
is_contract_locked(st) == IF st.config # <<>> THEN st.config[1].mutable ELSE FALSE

\* -------------------------------------------------------- AllocationDataKey
get_allocation(st, shareholder, token) ==
    IF <<shareholder, token>> \in DOMAIN st.allocation
    THEN st.allocation[<<shareholder, token>>] ELSE 0

has_total_allocation(st, token) == token \in DOMAIN st.total_allocation

get_total_allocation(st, token) ==
    IF token \in DOMAIN st.total_allocation THEN st.total_allocation[token] ELSE 0

save_total_allocation(st, token, v) ==
    [st EXCEPT !.total_allocation = Put(st.total_allocation, token, v)]

remove_total_allocation(st, token) ==
    [st EXCEPT !.total_allocation = Del(st.total_allocation, token)]

\* save_allocation adding the whole new allocation to the total, not the change
save_allocation_no_delta(st, shareholder, token, new_allocation) ==
    LET st1 == IF new_allocation # 0
               THEN save_total_allocation(st, token,
                        get_total_allocation(st, token) + new_allocation)
               ELSE st
    IN [st1 EXCEPT !.allocation = Put(st1.allocation, <<shareholder, token>>, new_allocation)]

save_allocation(st, shareholder, token, new_allocation) ==
    LET old_allocation == get_allocation(st, shareholder, token)
        delta == new_allocation - old_allocation
        st1 == IF delta # 0
               THEN IF has_total_allocation(st, token)
                    THEN LET new_total == st.total_allocation[token] + delta
                         IN IF new_total <= 0
                            THEN remove_total_allocation(st, token)
                            ELSE save_total_allocation(st, token, new_total)
                    ELSE IF delta > 0
                         THEN save_total_allocation(st, token, delta)
                         ELSE st
               ELSE st
    IN [st1 EXCEPT !.allocation = Put(st1.allocation, <<shareholder, token>>, new_allocation)]

\* remove_allocation leaving the total of the token as it was
remove_allocation_keep_total(st, shareholder, token) ==
    [st EXCEPT !.allocation = Del(st.allocation, <<shareholder, token>>)]

\* remove_allocation storing the new total whatever it is
remove_allocation_zero_total(st, shareholder, token) ==
    LET st1 == IF has_total_allocation(st, token)
               THEN save_total_allocation(st, token,
                        st.total_allocation[token] - st.allocation[<<shareholder, token>>])
               ELSE st
    IN [st1 EXCEPT !.allocation = Del(st1.allocation, <<shareholder, token>>)]

\* the caller guarantees that the allocation record exists (unwrap)
remove_allocation(st, shareholder, token) ==
    LET st1 == IF has_total_allocation(st, token)
               THEN LET new_total_allocation ==
                            st.total_allocation[token] - st.allocation[<<shareholder, token>>]
                    IN IF new_total_allocation = 0
                       THEN remove_total_allocation(st, token)
                       ELSE save_total_allocation(st, token, new_total_allocation)
               ELSE st
    IN [st1 EXCEPT !.allocation = Del(st1.allocation, <<shareholder, token>>)]

\* ------------------------------------------------------- SaleListingDataKey
\* add_to_active_listings appending without looking for the seller
add_to_active_listings_always(st, seller) ==
    [st EXCEPT !.active_listings = Append(st.active_listings, seller)]

add_to_active_listings(st, seller) ==
    IF seller \in Range(st.active_listings) THEN st
    ELSE [st EXCEPT !.active_listings = Append(st.active_listings, seller)]

\* remove_from_active_listings removing the last entry, whoever it is
remove_from_active_listings_last(st, seller) ==
    IF st.active_listings # <<>>
    THEN [st EXCEPT !.active_listings = RemoveAt(st.active_listings, Len(st.active_listings))]
    ELSE st

remove_from_active_listings(st, seller) ==
    LET found_index == FirstIndex(st.active_listings, seller)
    IN IF found_index # 0
       THEN [st EXCEPT !.active_listings = RemoveAt(st.active_listings, found_index)]
       ELSE st

save_listing(st, seller, shares_for_sale, price_per_share, payment_token) ==
    add_to_active_listings(
        [st EXCEPT !.listings = Put(st.listings, seller,
            [seller |-> seller, shares_for_sale |-> shares_for_sale,
             price_per_share |-> price_per_share, payment_token |-> payment_token])],
        seller)

has_listing(st, seller) == seller \in DOMAIN st.listings

\* remove_listing leaving the seller in the active-listing index
remove_listing_keep_index(st, seller) == [st EXCEPT !.listings = Del(st.listings, seller)]

remove_listing(st, seller) ==
    remove_from_active_listings([st EXCEPT !.listings = Del(st.listings, seller)], seller)

\* query::get_listing: the seller's listing, if any
get_listing(st, seller) == IF has_listing(st, seller) THEN <<st.listings[seller]>> ELSE <<>>

\* query::list_all_sales: the listings of the sellers of the index, in its order
RECURSIVE list_all_sales_from(_, _)
list_all_sales_from(st, i) ==
    IF i > Len(st.active_listings) THEN <<>>
    ELSE get_listing(st, st.active_listings[i]) \o list_all_sales_from(st, i + 1)

list_all_sales(st) == list_all_sales_from(st, 1)

\* --------------------------------------------------------- CommissionConfig
DefaultCommission ==
    [recipient |-> DEFAULT_COMMISSION_ADDRESS, buy_rate_bps |-> BUY_COMMISSION_BPS,
     distribution_rate_bps |-> DISTRIBUTION_COMMISSION_BPS]

\* CommissionConfig::get writes the defaults when the record is absent
commission_get_store(st) ==
    IF st.commission # <<>> THEN st ELSE [st EXCEPT !.commission = <<DefaultCommission>>]

commission_get(st) == commission_get_store(st).commission[1]

\* calculate_commission rounding up instead of down
calculate_commission_ceil(amount, rate_bps) ==
    MulDivBps(amount, rate_bps)
        + (IF ((amount % BPS_DENOMINATOR) * rate_bps) % BPS_DENOMINATOR # 0 THEN 1 ELSE 0)

calculate_commission(amount, rate_bps) == MulDivBps(amount, rate_bps)

\* ------------------------------------------------------------ token contract
token_balance(st, token, a) == st.balance[token][a]

\* TokenClient::transfer; the caller checks CanTransfer first (the token traps otherwise)
CanTransfer(st, token, from, amount) == amount >= 0 /\ st.balance[token][from] >= amount

token_transfer(st, token, from, to, amount) ==
    LET b1 == [st.balance[token] EXCEPT ![from] = @ - amount]
        b2 == [b1 EXCEPT ![to] = @ + amount]
    IN [st EXCEPT !.balance[token] = b2]

Xfer(token, from, to, amount) == [token |-> token, from |-> from, to |-> to, amount |-> amount]

\* ------------------------------------------------------------ logic/helpers
\* check_shares: "Ok" or the first error met, scanning the list in order
RECURSIVE check_shares_from(_, _, _)
check_shares_from(list, i, total) ==
    IF i > Len(list)
    THEN IF total # TOTAL_SHARES THEN "InvalidShareTotal" ELSE "Ok"
    ELSE IF list[i].share < 0 THEN "NegativeShareAmount"
    ELSE IF \E j \in (i + 1)..Len(list) : list[j].shareholder = list[i].shareholder
         THEN "DuplicateShareholder"
    ELSE check_shares_from(list, i + 1, total + list[i].share)

\* check_shares looking for a negative amount anywhere before any duplicate
check_shares_negatives_first(list) ==
    IF Len(list) < 1 THEN "LowShareCount"
    ELSE IF \E i \in 1..Len(list) : list[i].share < 0 THEN "NegativeShareAmount"
    ELSE check_shares_from(list, 1, 0)

check_shares(list) ==
    IF Len(list) < 1 THEN "LowShareCount" ELSE check_shares_from(list, 1, 0)

RECURSIVE update_shares_from(_, _, _)
update_shares_from(st, list, i) ==
    IF i > Len(list) THEN st
    ELSE update_shares_from(save_share(st, list[i].shareholder, list[i].share), list, i + 1)

update_shares_helper(st, list) ==
    save_shareholders(update_shares_from(st, list, 1),
                      [i \in 1..Len(list) |-> list[i].shareholder])

RECURSIVE reset_shares_from(_, _, _)
reset_shares_from(st, holders, i) ==
    IF i > Len(holders) THEN st
    ELSE reset_shares_from(remove_share(st, holders[i]), holders, i + 1)

\* reset_shares clearing the holder order but no share record
reset_shares_order_only(st) == remove_shareholders(st)

reset_shares(st) == remove_shareholders(reset_shares_from(st, st.shareholders, 1))

\* Address::require_auth: the call carries the authorization of `signer`
require_auth(signer, a) == signer = a

\* ------------------------------------------------------------- execute::init
\* init without the guard against a second initialization
init_unguarded(st, admin, list, mutable) ==
    LET st1 == config_init(st, admin, mutable)
        c == check_shares(list)
    IN IF c # "Ok" THEN Err(st, c, TRUE)
       ELSE Ok(update_shares_helper(st1, list), <<>>)

init(st, admin, list, mutable) ==
    IF config_exists(st) THEN Err(st, "AlreadyInitialized", FALSE)
    ELSE LET st1 == config_init(st, admin, mutable)
             c == check_shares(list)
         IN IF c # "Ok" THEN Err(st, c, TRUE)
            ELSE Ok(update_shares_helper(st1, list), <<>>)

\* query::list_shares: the share records of the holders, in holder order
RECURSIVE list_shares_from(_, _)
list_shares_from(st, i) ==
    IF i > Len(st.shareholders) THEN <<>>
    ELSE (IF has_share(st, st.shareholders[i])
          THEN <<[shareholder |-> st.shareholders[i],
                  share |-> st.shares[st.shareholders[i]]]>>
          ELSE <<>>)
         \o list_shares_from(st, i + 1)

list_shares(st) == list_shares_from(st, 1)

\* ---------------------------------------------------- execute::update_shares
\* update_shares without the admin's authorization
update_shares_any_signer(st, signer, list) ==
    IF ~config_exists(st) THEN Err(st, "NotInitialized", FALSE)
    ELSE IF ~is_contract_locked(st) THEN Err(st, "ContractLocked", FALSE)
    ELSE LET c == check_shares(list)
         IN IF c # "Ok" THEN Err(st, c, FALSE)
            ELSE Ok(update_shares_helper(reset_shares(st), list), <<>>)

\* update_shares without the test of the mutable flag
update_shares_unlocked(st, signer, list) ==
    IF ~config_exists(st) THEN Err(st, "NotInitialized", FALSE)
    ELSE IF ~require_auth(signer, st.config[1].admin) THEN Err(st, "Unauthorized", FALSE)
    ELSE LET c == check_shares(list)
         IN IF c # "Ok" THEN Err(st, c, FALSE)
            ELSE Ok(update_shares_helper(reset_shares(st), list), <<>>)

update_shares(st, signer, list) ==
    IF ~config_exists(st) THEN Err(st, "NotInitialized", FALSE)
    ELSE IF ~require_auth(signer, st.config[1].admin) THEN Err(st, "Unauthorized", FALSE)
    ELSE IF ~is_contract_locked(st) THEN Err(st, "ContractLocked", FALSE)
    ELSE LET c == check_shares(list)
         IN IF c # "Ok" THEN Err(st, c, FALSE)
            ELSE Ok(update_shares_helper(reset_shares(st), list), <<>>)

\* -------------------------------------------------- execute::transfer_shares
\* the removal that never saves the shortened sequence
remove_from_shareholders_unsaved(st, a) == st

\* removes `a` from the holder-order sequence when it is there
remove_from_shareholders(st, a) ==
    LET found_index == FirstIndex(st.shareholders, a)
    IN IF found_index # 0
       THEN save_shareholders(st, RemoveAt(st.shareholders, found_index))
       ELSE st

\* transfer_shares without the test that the contract is initialized
transfer_shares_uninitialized(st, signer, from, to, amount) ==
    IF ~require_auth(signer, from) THEN Err(st, "Unauthorized", FALSE)
    ELSE IF from = to THEN Err(st, "CannotTransferToSelf", FALSE)
    ELSE IF amount <= 0 THEN Err(st, "InvalidShareAmount", FALSE)
    ELSE IF ~has_share(st, from) THEN Err(st, "NoSharesToTransfer", FALSE)
    ELSE IF st.shares[from] < amount THEN Err(st, "InsufficientSharesToTransfer", FALSE)
    ELSE LET new_sender_share == st.shares[from] - amount
             is_new_shareholder == ~has_share(st, to)
             new_recipient_share == IF has_share(st, to) THEN st.shares[to] + amount
                                    ELSE amount
             st1 == IF new_sender_share = 0
                    THEN remove_from_shareholders(remove_share(st, from), from)
                    ELSE save_share(st, from, new_sender_share)
             st2 == save_share(st1, to, new_recipient_share)
             st3 == IF is_new_shareholder
                    THEN save_shareholders(st2, Append(st2.shareholders, to))
                    ELSE st2
         IN Ok(st3, <<>>)

\* transfer_shares with the amount test moved before the self-transfer test
transfer_shares_amount_first(st, signer, from, to, amount) ==
    IF ~config_exists(st) THEN Err(st, "NotInitialized", FALSE)
    ELSE IF ~require_auth(signer, from) THEN Err(st, "Unauthorized", FALSE)
    ELSE IF amount <= 0 THEN Err(st, "InvalidShareAmount", FALSE)
    ELSE IF from = to THEN Err(st, "CannotTransferToSelf", FALSE)
    ELSE IF ~has_share(st, from) THEN Err(st, "NoSharesToTransfer", FALSE)
    ELSE IF st.shares[from] < amount THEN Err(st, "InsufficientSharesToTransfer", FALSE)
    ELSE LET new_sender_share == st.shares[from] - amount
             is_new_shareholder == ~has_share(st, to)
             new_recipient_share == IF has_share(st, to) THEN st.shares[to] + amount
                                    ELSE amount
             st1 == IF new_sender_share = 0
                    THEN remove_from_shareholders(remove_share(st, from), from)
                    ELSE save_share(st, from, new_sender_share)
             st2 == save_share(st1, to, new_recipient_share)
             st3 == IF is_new_shareholder
                    THEN save_shareholders(st2, Append(st2.shareholders, to))
                    ELSE st2
         IN Ok(st3, <<>>)

transfer_shares(st, signer, from, to, amount) ==
    IF ~config_exists(st) THEN Err(st, "NotInitialized", FALSE)
    ELSE IF ~require_auth(signer, from) THEN Err(st, "Unauthorized", FALSE)
    ELSE IF from = to THEN Err(st, "CannotTransferToSelf", FALSE)
    ELSE IF amount <= 0 THEN Err(st, "InvalidShareAmount", FALSE)
    ELSE IF ~has_share(st, from) THEN Err(st, "NoSharesToTransfer", FALSE)
    ELSE IF st.shares[from] < amount THEN Err(st, "InsufficientSharesToTransfer", FALSE)
    ELSE LET new_sender_share == st.shares[from] - amount
             is_new_shareholder == ~has_share(st, to)
             new_recipient_share == IF has_share(st, to) THEN st.shares[to] + amount
                                    ELSE amount
             st1 == IF new_sender_share = 0
                    THEN remove_from_shareholders(remove_share(st, from), from)
                    ELSE save_share(st, from, new_sender_share)
             st2 == save_share(st1, to, new_recipient_share)
             st3 == IF is_new_shareholder
                    THEN save_shareholders(st2, Append(st2.shareholders, to))
                    ELSE st2
         IN Ok(st3, <<>>)

\* ------------------------------------------------ execute::distribute_tokens
\* the loop writing each holder's part over the allocation it finds
RECURSIVE distribute_loop_overwrite(_, _, _, _, _)
distribute_loop_overwrite(acc, holders, i, token, amount_for_shareholders) ==
    IF i > Len(holders) THEN acc
    ELSE LET shareholder == holders[i]
         IN IF ~has_share(acc.st, shareholder)
            THEN distribute_loop_overwrite(acc, holders, i + 1, token, amount_for_shareholders)
            ELSE LET share == acc.st.shares[shareholder]
                     larger == share > acc.largest_share
                     amount == MulDivBps(amount_for_shareholders, share)
                     st1 == IF amount > 0
                            THEN save_allocation(acc.st, shareholder, token, amount)
                            ELSE acc.st
                     acc1 == [st |-> st1,
                              total_distributed |->
                                  IF amount > 0 THEN acc.total_distributed + amount
                                  ELSE acc.total_distributed,
                              largest_share |-> IF larger THEN share ELSE acc.largest_share,
                              largest_shareholder |->
                                  IF larger THEN <<shareholder>> ELSE acc.largest_shareholder]
                 IN distribute_loop_overwrite(acc1, holders, i + 1, token,
                                              amount_for_shareholders)

\* the loop taking the last of several largest holders (>= for >)
RECURSIVE distribute_loop_last_largest(_, _, _, _, _)
distribute_loop_last_largest(acc, holders, i, token, amount_for_shareholders) ==
    IF i > Len(holders) THEN acc
    ELSE LET shareholder == holders[i]
         IN IF ~has_share(acc.st, shareholder)
            THEN distribute_loop_last_largest(acc, holders, i + 1, token,
                                              amount_for_shareholders)
            ELSE LET share == acc.st.shares[shareholder]
                     larger == share >= acc.largest_share
                     amount == MulDivBps(amount_for_shareholders, share)
                     st1 == IF amount > 0
                            THEN save_allocation(acc.st, shareholder, token,
                                     get_allocation(acc.st, shareholder, token) + amount)
                            ELSE acc.st
                     acc1 == [st |-> st1,
                              total_distributed |->
                                  IF amount > 0 THEN acc.total_distributed + amount
                                  ELSE acc.total_distributed,
                              largest_share |-> IF larger THEN share ELSE acc.largest_share,
                              largest_shareholder |->
                                  IF larger THEN <<shareholder>> ELSE acc.largest_shareholder]
                 IN distribute_loop_last_largest(acc1, holders, i + 1, token,
                                                 amount_for_shareholders)

\* the loop taking each holder's part off its allocation (- for +)
RECURSIVE distribute_loop_debit(_, _, _, _, _)
distribute_loop_debit(acc, holders, i, token, amount_for_shareholders) ==
    IF i > Len(holders) THEN acc
    ELSE LET shareholder == holders[i]
         IN IF ~has_share(acc.st, shareholder)
            THEN distribute_loop_debit(acc, holders, i + 1, token, amount_for_shareholders)
            ELSE LET share == acc.st.shares[shareholder]
                     larger == share > acc.largest_share
                     amount == MulDivBps(amount_for_shareholders, share)
                     st1 == IF amount > 0
                            THEN save_allocation(acc.st, shareholder, token,
                                     get_allocation(acc.st, shareholder, token) - amount)
                            ELSE acc.st
                     acc1 == [st |-> st1,
                              total_distributed |->
                                  IF amount > 0 THEN acc.total_distributed + amount
                                  ELSE acc.total_distributed,
                              largest_share |-> IF larger THEN share ELSE acc.largest_share,
                              largest_shareholder |->
                                  IF larger THEN <<shareholder>> ELSE acc.largest_shareholder]
                 IN distribute_loop_debit(acc1, holders, i + 1, token, amount_for_shareholders)

\* the loop over the shareholders vector; acc carries the store and the locals
RECURSIVE distribute_loop(_, _, _, _, _)
distribute_loop(acc, holders, i, token, amount_for_shareholders) ==
    IF i > Len(holders) THEN acc
    ELSE LET shareholder == holders[i]
         IN IF ~has_share(acc.st, shareholder)
            THEN distribute_loop(acc, holders, i + 1, token, amount_for_shareholders)
            ELSE LET share == acc.st.shares[shareholder]
                     larger == share > acc.largest_share
                     amount == MulDivBps(amount_for_shareholders, share)
                     st1 == IF amount > 0
                            THEN save_allocation(acc.st, shareholder, token,
                                     get_allocation(acc.st, shareholder, token) + amount)
                            ELSE acc.st
                     acc1 == [st |-> st1,
                              total_distributed |->
                                  IF amount > 0 THEN acc.total_distributed + amount
                                  ELSE acc.total_distributed,
                              largest_share |-> IF larger THEN share ELSE acc.largest_share,
                              largest_shareholder |->
                                  IF larger THEN <<shareholder>> ELSE acc.largest_shareholder]
                 IN distribute_loop(acc1, holders, i + 1, token, amount_for_shareholders)

distribute_tokens(st, signer, token) ==
    IF ~config_exists(st) THEN Err(st, "NotInitialized", FALSE)
    ELSE IF ~require_auth(signer, st.config[1].admin) THEN Err(st, "Unauthorized", FALSE)
    ELSE LET pool_balance == token_balance(st, token, POOL)
             total_allocated == get_total_allocation(st, token)
             distributable == pool_balance - total_allocated
         IN IF distributable <= 0 THEN Ok(st, <<>>)
            ELSE LET st1 == commission_get_store(st)
                     commission_config == st1.commission[1]
                     fee == calculate_commission(distributable,
                                                 commission_config.distribution_rate_bps)
                     xfers == IF fee > 0
                              THEN <<Xfer(token, POOL, commission_config.recipient, fee)>>
                              ELSE <<>>
                     st2 == IF fee > 0
                            THEN token_transfer(st1, token, POOL, commission_config.recipient, fee)
                            ELSE st1
                     amount_for_shareholders == distributable - fee
                 IN IF fee > 0 /\ ~CanTransfer(st1, token, POOL, fee)
                    THEN Err(st, "HostError", TRUE)
                    ELSE IF amount_for_shareholders <= 0 THEN Ok(st2, xfers)
                    ELSE LET acc == distribute_loop(
                                        [st |-> st2, total_distributed |-> 0,
                                         largest_share |-> 0, largest_shareholder |-> <<>>],
                                        st2.shareholders, 1, token, amount_for_shareholders)
                             dust == amount_for_shareholders - acc.total_distributed
                             st3 == IF dust > 0 /\ acc.largest_shareholder # <<>>
                                    THEN save_allocation(acc.st, acc.largest_shareholder[1], token,
                                             get_allocation(acc.st, acc.largest_shareholder[1], token)
                                                 + dust)
                                    ELSE acc.st
                         IN Ok(st3, xfers)

\* --------------------------------------------- execute::list_shares_for_sale
\* list_shares_for_sale refusing a seller who offers all the units held (<= for <)
list_shares_for_sale_strict(st, signer, seller, shares_amount, price_per_share, payment_token) ==
    IF shares_amount <= 0 THEN Err(st, "InvalidShareAmount", FALSE)
    ELSE IF price_per_share <= 0 THEN Err(st, "InvalidPrice", FALSE)
    ELSE IF ~require_auth(signer, seller) THEN Err(st, "Unauthorized", FALSE)
    ELSE IF ~has_share(st, seller) THEN Err(st, "NoSharesToSell", FALSE)
    ELSE IF st.shares[seller] <= shares_amount THEN Err(st, "NoSharesToSell", FALSE)
    ELSE Ok(save_listing(st, seller, shares_amount, price_per_share, payment_token), <<>>)

list_shares_for_sale(st, signer, seller, shares_amount, price_per_share, payment_token) ==
    IF shares_amount <= 0 THEN Err(st, "InvalidShareAmount", FALSE)
    ELSE IF price_per_share <= 0 THEN Err(st, "InvalidPrice", FALSE)
    ELSE IF ~require_auth(signer, seller) THEN Err(st, "Unauthorized", FALSE)
    ELSE IF ~has_share(st, seller) THEN Err(st, "NoSharesToSell", FALSE)
    ELSE IF st.shares[seller] < shares_amount THEN Err(st, "NoSharesToSell", FALSE)
    ELSE Ok(save_listing(st, seller, shares_amount, price_per_share, payment_token), <<>>)

\* --------------------------------------------------- execute::cancel_listing
\* cancel_listing without the check that the listing exists
cancel_listing_unchecked(st, signer, seller) ==
    IF ~require_auth(signer, seller) THEN Err(st, "Unauthorized", FALSE)
    ELSE Ok(remove_listing(st, seller), <<>>)

cancel_listing(st, signer, seller) ==
    IF ~require_auth(signer, seller) THEN Err(st, "Unauthorized", FALSE)
    ELSE IF ~has_listing(st, seller) THEN Err(st, "NoActiveListing", FALSE)
    ELSE Ok(remove_listing(st, seller), <<>>)

\* ------------------------------------------------------- execute::buy_shares
\* the checks with the own-shares test moved before the amount test
buy_shares_validate_own_first(st, signer, buyer, seller, shares_amount) ==
    IF ~require_auth(signer, buyer) THEN "Unauthorized"
    ELSE IF buyer = seller THEN "CannotBuyOwnShares"
    ELSE IF shares_amount <= 0 THEN "InvalidShareAmount"
    ELSE IF ~has_listing(st, seller) THEN "NoActiveListing"
    ELSE IF shares_amount > st.listings[seller].shares_for_sale
         THEN "InsufficientSharesInListing"
    ELSE "Ok"

\* the checks without the comparison with the listing's remaining units
buy_shares_validate_no_limit(st, signer, buyer, seller, shares_amount) ==
    IF ~require_auth(signer, buyer) THEN "Unauthorized"
    ELSE IF shares_amount <= 0 THEN "InvalidShareAmount"
    ELSE IF buyer = seller THEN "CannotBuyOwnShares"
    ELSE IF ~has_listing(st, seller) THEN "NoActiveListing"
    ELSE "Ok"

\* the checks that precede the price arithmetic: "Ok" or the first error met
buy_shares_validate(st, signer, buyer, seller, shares_amount) ==
    IF ~require_auth(signer, buyer) THEN "Unauthorized"
    ELSE IF shares_amount <= 0 THEN "InvalidShareAmount"
    ELSE IF buyer = seller THEN "CannotBuyOwnShares"
    ELSE IF ~has_listing(st, seller) THEN "NoActiveListing"
    ELSE IF shares_amount > st.listings[seller].shares_for_sale
         THEN "InsufficientSharesInListing"
    ELSE "Ok"

\* The commission is computed with an unchecked multiplication.  When
\* total_price * buy_rate_bps leaves the integer type, a build with overflow
\* checks panics there; a build without them goes on with the wrapped product
\* and asks the token for a transfer of more than total_price less a 10000th
\* of the type's range, which traps as long as the buyer's balance is below
\* that amount (every balance of this model is).  Either way the call aborts.
buy_shares(st, signer, buyer, seller, shares_amount) ==
    LET v == buy_shares_validate(st, signer, buyer, seller, shares_amount)
    IN IF v # "Ok" THEN Err(st, v, FALSE)
    ELSE IF ~mul_fits(shares_amount, st.listings[seller].price_per_share)
         THEN Err(st, "Overflow", FALSE)
    ELSE IF ~mul_fits(shares_amount * st.listings[seller].price_per_share,
                      commission_get(st).buy_rate_bps)
         THEN Err(st, "HostError", TRUE)
    ELSE LET listing == st.listings[seller]
             total_price == shares_amount * listing.price_per_share
             st1 == commission_get_store(st)
             commission_config == st1.commission[1]
             fee == calculate_commission(total_price, commission_config.buy_rate_bps)
             seller_receives == total_price - fee
             token == listing.payment_token
             pay_seller == seller_receives > 0
             pay_fee == fee > 0
             st2 == IF pay_seller
                    THEN token_transfer(st1, token, buyer, seller, seller_receives) ELSE st1
             st3 == IF pay_fee
                    THEN token_transfer(st2, token, buyer, commission_config.recipient, fee)
                    ELSE st2
             xfers == (IF pay_seller THEN <<Xfer(token, buyer, seller, seller_receives)>>
                       ELSE <<>>)
                      \o (IF pay_fee
                          THEN <<Xfer(token, buyer, commission_config.recipient, fee)>>
                          ELSE <<>>)
         IN IF pay_seller /\ ~CanTransfer(st1, token, buyer, seller_receives)
            THEN Err(st, "HostError", TRUE)
            ELSE IF pay_fee /\ ~CanTransfer(st2, token, buyer, fee)
            THEN Err(st, "HostError", TRUE)
            ELSE IF ~has_share(st3, seller) THEN Err(st, "NoSharesToSell", TRUE)
            ELSE LET seller_share == st3.shares[seller] - shares_amount
                     st4 == IF seller_share > 0
                            THEN save_share(st3, seller, seller_share)
                            ELSE remove_from_shareholders(remove_share(st3, seller), seller)
                     st5 == IF has_share(st4, buyer)
                            THEN save_share(st4, buyer, st4.shares[buyer] + shares_amount)
                            ELSE save_share(
                                     save_shareholders(st4, Append(st4.shareholders, buyer)),
                                     buyer, shares_amount)
                     remaining_shares == listing.shares_for_sale - shares_amount
                     st6 == IF remaining_shares > 0
                            THEN save_listing(st5, seller, remaining_shares,
                                              listing.price_per_share, listing.payment_token)
                            ELSE remove_listing(st5, seller)
                 IN Ok(st6, xfers)

\* ---------------------------------------------- execute::withdraw_allocation
\* withdraw_allocation refusing an amount equal to the allocation too
withdraw_allocation_strict(st, signer, token, shareholder, amount) ==
    IF ~(require_auth(signer, shareholder)
         \/ (config_exists(st) /\ require_auth(signer, st.config[1].admin)))
    THEN Err(st, "Unauthorized", FALSE)
    ELSE IF amount <= 0 THEN Err(st, "ZeroWithdrawalAmount", FALSE)
    ELSE LET current == get_allocation(st, shareholder, token)
         IN IF amount >= current THEN Err(st, "WithdrawalAmountAboveAllocation", FALSE)
            ELSE LET st1 == save_allocation(st, shareholder, token, current - amount)
                 IN IF ~CanTransfer(st1, token, POOL, amount)
                    THEN Err(st, "HostError", TRUE)
                    ELSE Ok(token_transfer(st1, token, POOL, shareholder, amount),
                            <<Xfer(token, POOL, shareholder, amount)>>)

withdraw_allocation(st, signer, token, shareholder, amount) ==
    IF ~(require_auth(signer, shareholder)
         \/ (config_exists(st) /\ require_auth(signer, st.config[1].admin)))
    THEN Err(st, "Unauthorized", FALSE)
    ELSE IF amount <= 0 THEN Err(st, "ZeroWithdrawalAmount", FALSE)
    ELSE LET current == get_allocation(st, shareholder, token)
         IN IF amount > current THEN Err(st, "WithdrawalAmountAboveAllocation", FALSE)
            ELSE LET st1 == IF amount = current
                            THEN remove_allocation(st, shareholder, token)
                            ELSE save_allocation(st, shareholder, token, current - amount)
                 IN IF ~CanTransfer(st1, token, POOL, amount)
                    THEN Err(st, "HostError", TRUE)
                    ELSE Ok(token_transfer(st1, token, POOL, shareholder, amount),
                            <<Xfer(token, POOL, shareholder, amount)>>)

\* -------------------------------------------------- execute::transfer_tokens
\* transfer_tokens comparing the amount with the balance only
transfer_tokens_whole_balance(st, signer, token, recipient, amount) ==
    IF ~config_exists(st) THEN Err(st, "NotInitialized", FALSE)
    ELSE IF ~require_auth(signer, st.config[1].admin) THEN Err(st, "Unauthorized", FALSE)
    ELSE IF amount <= 0 THEN Err(st, "ZeroTransferAmount", FALSE)
    ELSE IF amount > token_balance(st, token, POOL)
    THEN Err(st, "TransferAmountAboveBalance", FALSE)
    ELSE Ok(token_transfer(st, token, POOL, recipient, amount),
            <<Xfer(token, POOL, recipient, amount)>>)

transfer_tokens(st, signer, token, recipient, amount) ==
    IF ~config_exists(st) THEN Err(st, "NotInitialized", FALSE)
    ELSE IF ~require_auth(signer, st.config[1].admin) THEN Err(st, "Unauthorized", FALSE)
    ELSE IF amount <= 0 THEN Err(st, "ZeroTransferAmount", FALSE)
    ELSE LET pool_balance == token_balance(st, token, POOL)
             unused_balance == pool_balance - get_total_allocation(st, token)
         IN IF amount > pool_balance THEN Err(st, "TransferAmountAboveBalance", FALSE)
            ELSE IF amount > unused_balance
            THEN Err(st, "TransferAmountAboveUnusedBalance", FALSE)
            ELSE Ok(token_transfer(st, token, POOL, recipient, amount),
                    <<Xfer(token, POOL, recipient, amount)>>)

\* ---------------------------------------------------- execute::lock_contract
lock_contract(st, signer) ==
    IF ~config_exists(st) THEN Err(st, "NotInitialized", FALSE)
    ELSE IF ~require_auth(signer, st.config[1].admin) THEN Err(st, "Unauthorized", FALSE)
    ELSE Ok(config_lock_contract(st), <<>>)

\* ------------------------------------------------- CommissionConfig setters
\* set_recipient asking for the authorization of the admin, not of the recipient
set_recipient_by_admin(st, signer, new_recipient) ==
    LET st1 == commission_get_store(st)
        cfg == st1.commission[1]
    IN IF ~(config_exists(st) /\ require_auth(signer, st.config[1].admin))
       THEN Err(st, "Unauthorized", TRUE)
       ELSE Ok([st1 EXCEPT !.commission = <<[cfg EXCEPT !.recipient = new_recipient]>>], <<>>)

set_recipient(st, signer, new_recipient) ==
    LET st1 == commission_get_store(st)
        cfg == st1.commission[1]
    IN IF ~require_auth(signer, cfg.recipient) THEN Err(st, "Unauthorized", TRUE)
       ELSE Ok([st1 EXCEPT !.commission = <<[cfg EXCEPT !.recipient = new_recipient]>>], <<>>)

set_buy_rate(st, signer, new_rate_bps) ==
    LET st1 == commission_get_store(st)
        cfg == st1.commission[1]
    IN IF ~require_auth(signer, cfg.recipient) THEN Err(st, "Unauthorized", TRUE)
       ELSE IF new_rate_bps < 0 \/ new_rate_bps > MAX_COMMISSION_BPS
       THEN Err(st, "InvalidCommissionRate", TRUE)
       ELSE Ok([st1 EXCEPT !.commission = <<[cfg EXCEPT !.buy_rate_bps = new_rate_bps]>>], <<>>)

\* set_distribution_rate testing the upper limit only
set_distribution_rate_no_floor(st, signer, new_rate_bps) ==
    LET st1 == commission_get_store(st)
        cfg == st1.commission[1]
    IN IF ~require_auth(signer, cfg.recipient) THEN Err(st, "Unauthorized", TRUE)
       ELSE IF new_rate_bps > MAX_COMMISSION_BPS
       THEN Err(st, "InvalidCommissionRate", TRUE)
       ELSE Ok([st1 EXCEPT !.commission =
                    <<[cfg EXCEPT !.distribution_rate_bps = new_rate_bps]>>], <<>>)

set_distribution_rate(st, signer, new_rate_bps) ==
    LET st1 == commission_get_store(st)
        cfg == st1.commission[1]
    IN IF ~require_auth(signer, cfg.recipient) THEN Err(st, "Unauthorized", TRUE)
       ELSE IF new_rate_bps < 0 \/ new_rate_bps > MAX_COMMISSION_BPS
       THEN Err(st, "InvalidCommissionRate", TRUE)
       ELSE Ok([st1 EXCEPT !.commission =
                    <<[cfg EXCEPT !.distribution_rate_bps = new_rate_bps]>>], <<>>)

\* ------------------------------------------------------------------- actions
\* One call of an entry point.  The host commits the writes of a call that
\* returns Ok and discards those of a call that returns an error or traps.
Call(op, args, out) ==
    /\ Commit(IF out.err = "Ok" THEN out.st ELSE Cur)
    /\ last' = [op |-> op, args |-> args, err |-> out.err, xfers |-> out.xfers,
                dirty |-> out.dirty]
    /\ steps' = IF out.err = "Ok" /\ op # "init" THEN steps + 1 ELSE steps

InitCall(admin, list, mutable) ==
    Call("init", [admin |-> admin, shares |-> list, mutable |-> mutable],
         init(Cur, admin, list, mutable))

UpdateShares(signer, list) ==
    Call("update_shares", [signer |-> signer, shares |-> list],
         update_shares(Cur, signer, list))

LockContract(signer) ==
    Call("lock_contract", [signer |-> signer], lock_contract(Cur, signer))

TransferShares(signer, from, to, amount) ==
    Call("transfer_shares", [signer |-> signer, from |-> from, to |-> to, amount |-> amount],
         transfer_shares(Cur, signer, from, to, amount))

DistributeTokens(signer, token) ==
    Call("distribute_tokens", [signer |-> signer, token |-> token],
         distribute_tokens(Cur, signer, token))

WithdrawAllocation(signer, token, shareholder, amount) ==
    Call("withdraw_allocation",
         [signer |-> signer, token |-> token, shareholder |-> shareholder, amount |-> amount],
         withdraw_allocation(Cur, signer, token, shareholder, amount))

TransferTokens(signer, token, recipient, amount) ==
    Call("transfer_tokens",
         [signer |-> signer, token |-> token, recipient |-> recipient, amount |-> amount],
         transfer_tokens(Cur, signer, token, recipient, amount))

ListSharesForSale(signer, seller, shares_amount, price_per_share, payment_token) ==
    Call("list_shares_for_sale",
         [signer |-> signer, seller |-> seller, shares_amount |-> shares_amount,
          price_per_share |-> price_per_share, payment_token |-> payment_token],
         list_shares_for_sale(Cur, signer, seller, shares_amount, price_per_share,
                              payment_token))

CancelListing(signer, seller) ==
    Call("cancel_listing", [signer |-> signer, seller |-> seller],
         cancel_listing(Cur, signer, seller))

BuyShares(signer, buyer, seller, shares_amount) ==
    Call("buy_shares",
         [signer |-> signer, buyer |-> buyer, seller |-> seller,
          shares_amount |-> shares_amount],
         buy_shares(Cur, signer, buyer, seller, shares_amount))

SetCommissionRecipient(signer, new_recipient) ==
    Call("set_commission_recipient", [signer |-> signer, new_recipient |-> new_recipient],
         set_recipient(Cur, signer, new_recipient))

SetBuyCommissionRate(signer, new_rate_bps) ==
    Call("set_buy_commission_rate", [signer |-> signer, new_rate_bps |-> new_rate_bps],
         set_buy_rate(Cur, signer, new_rate_bps))

SetDistributionCommissionRate(signer, new_rate_bps) ==
    Call("set_distribution_commission_rate",
         [signer |-> signer, new_rate_bps |-> new_rate_bps],
         set_distribution_rate(Cur, signer, new_rate_bps))

\* a deposit: the token's issuer mints `amount` of `token` to the pool
Deposit(token, amount) ==
    /\ amount <= MaxPoolBalance - balance[token][POOL]
    /\ balance' = [balance EXCEPT ![token][POOL] = @ + amount]
    /\ last' = [op |-> "deposit", args |-> [token |-> token, amount |-> amount],
                err |-> "Ok", xfers |-> <<>>, dirty |-> FALSE]
    /\ steps' = steps + 1
    /\ UNCHANGED <<config, commission, shares, shareholders, allocation, total_allocation,
                   listings, active_listings>>

\* -------------------------------------------------------------------- inputs
Share(a, n) == [shareholder |-> a, share |-> n]

Halves == <<Share("a1", 5000), Share("a2", 5000)>>
Thirds == <<Share("a1", 3333), Share("a2", 3333), Share("a3", 3334)>>
Default == <<Share("a1", 8050), Share("a2", 1950)>>

ADMIN == "a3"

\* the commission policy a call reads in the current state
PolicyNow == commission_get(Cur)

\* what a holder can withdraw in one call: everything, or a fixed part
WithdrawAmounts(shareholder, token) ==
    {get_allocation(Cur, shareholder, token), 100}

Init ==
    /\ config = <<>>
    /\ commission = <<>>
    /\ shares = Empty
    /\ shareholders = <<>>
    /\ allocation = Empty
    /\ total_allocation = Empty
    /\ listings = Empty
    /\ active_listings = <<>>
    /\ balance = [t \in Tokens |-> [a \in Addr |-> IF a \in Users THEN InitialFunds ELSE 0]]
    /\ last = [op |-> "none", args |-> <<>>, err |-> "Ok", xfers |-> <<>>, dirty |-> FALSE]
    /\ steps = 0

\* A step of Spec is a call that returns Ok.  A call that returns an error
\* changes nothing but `last` (see Call), so leaving it out loses no store.
OkStep(bound, A) == steps < bound /\ A /\ last'.err = "Ok"

Next ==
    \/ \E list \in {Halves}, mutable \in {TRUE} :
           OkStep(MaxSteps, InitCall(ADMIN, list, mutable))
    \/ \E list \in {Thirds, Default} : OkStep(MaxSteps, UpdateShares(ADMIN, list))
    \/ OkStep(MaxSteps, LockContract(ADMIN))
    \/ \E from \in Users, to \in Users, amount \in {1950, 5000} :
           OkStep(MaxSteps, TransferShares(from, from, to, amount))
    \/ \E token \in Tokens : OkStep(MaxSteps, DistributeTokens(ADMIN, token))
    \/ \E token \in Tokens, shareholder \in Users :
           \E amount \in WithdrawAmounts(shareholder, token) :
               OkStep(MaxSteps, WithdrawAllocation(shareholder, token, shareholder, amount))
    \/ \E token \in Tokens, amount \in {100} :
           OkStep(MaxSteps, TransferTokens(ADMIN, token, "a3", amount))
    \/ \E seller \in Users, n \in {5000}, price \in {2}, token \in {"t2"} :
           OkStep(MaxSteps, ListSharesForSale(seller, seller, n, price, token))
    \/ \E seller \in Users : OkStep(MaxSteps, CancelListing(seller, seller))
    \/ \E buyer \in Users, seller \in Users, n \in {1950, 5000} :
           OkStep(MaxSteps, BuyShares(buyer, buyer, seller, n))
    \/ \E signer \in Addr, r \in {POOL} : OkStep(MaxSteps, SetCommissionRecipient(signer, r))
    \/ \E signer \in Addr, rate \in {0} : OkStep(MaxSteps, SetBuyCommissionRate(signer, rate))
    \/ \E signer \in Addr, rate \in {5000} :
           OkStep(MaxSteps, SetDistributionCommissionRate(signer, rate))
    \/ \E token \in {"t1"}, amount \in {1000} : OkStep(MaxSteps, Deposit(token, amount))

Spec == Init /\ [][Next]_vars

\* The same program with the inputs of a distribution: three registries,
\* deposits of three sizes in both tokens, rate changes, a holder as the
\* commission recipient, and the share movements that reorder the holders.
NextDist ==
    \/ \E list \in {Default, Halves, Thirds} :
           OkStep(MaxDistSteps, InitCall(ADMIN, list, TRUE))
    \/ \E from \in Users, to \in Users, amount \in {5000} :
           OkStep(MaxDistSteps, TransferShares(from, from, to, amount))
    \/ \E seller \in Users :
           OkStep(MaxDistSteps, ListSharesForSale(seller, seller, 1950, 2, "t2"))
    \/ \E buyer \in Users, seller \in Users :
           OkStep(MaxDistSteps, BuyShares(buyer, buyer, seller, 1950))
    \/ \E token \in Tokens, amount \in {100, 1000, 1000000000} :
           OkStep(MaxDistSteps, Deposit(token, amount))
    \/ \E token \in Tokens : OkStep(MaxDistSteps, DistributeTokens(ADMIN, token))
    \/ \E token \in Tokens, shareholder \in Users :
           \E amount \in WithdrawAmounts(shareholder, token) :
               OkStep(MaxDistSteps,
                      WithdrawAllocation(shareholder, token, shareholder, amount))
    \/ \E rate \in {0, 5000} :
           OkStep(MaxDistSteps,
                  SetDistributionCommissionRate(PolicyNow.recipient, rate))
    \/ OkStep(MaxDistSteps, SetCommissionRecipient(PolicyNow.recipient, "a1"))

SpecDist == Init /\ [][NextDist]_vars

\* The same program with the inputs of the marketplace: listings of two
\* sizes at two prices in both tokens, partial and full purchases, rate
\* changes, a trader as the commission recipient, and transfers out of a
\* seller with a live listing.
NextMarket ==
    \/ \E list \in {Default, Halves} :
           OkStep(MaxMarketSteps, InitCall(ADMIN, list, TRUE))
    \/ \E seller \in Users, n \in {1950, 5000}, price \in {3, 100}, token \in Tokens :
           OkStep(MaxMarketSteps, ListSharesForSale(seller, seller, n, price, token))
    \/ \E seller \in Users : OkStep(MaxMarketSteps, CancelListing(seller, seller))
    \/ \E buyer \in Users, seller \in Users, n \in {1000, 1950, 5000} :
           OkStep(MaxMarketSteps, BuyShares(buyer, buyer, seller, n))
    \/ \E from \in Users, to \in Users, amount \in {1950} :
           OkStep(MaxMarketSteps, TransferShares(from, from, to, amount))
    \/ \E rate \in {0, 5000} :
           OkStep(MaxMarketSteps, SetBuyCommissionRate(PolicyNow.recipient, rate))
    \/ \E r \in {"a1", "a2"} :
           OkStep(MaxMarketSteps, SetCommissionRecipient(PolicyNow.recipient, r))

SpecMarket == Init /\ [][NextMarket]_vars

\* The same program with the calls that fail.  A failing call leaves the store
\* as it was and shows in `last` only.  The inputs are the ones the checks of
\* the entry points tell apart: lists that are empty, negative, duplicated or
\* of a wrong total, amounts of 0 and above the balance, a price of 0, a
\* price whose product with the units or with the rate leaves the integer
\* type, and a signer who is not the party concerned.
Single == <<Share("a1", 10000)>>
NegOnly == <<Share("a1", -1), Share("a2", 10001)>>
DupOnly == <<Share("a1", 5000), Share("a1", 5000)>>
DupThenNeg == <<Share("a1", 5000), Share("a1", -1)>>
NegDup == <<Share("a1", -1), Share("a1", 10001)>>
BadTotal == <<Share("a1", 8050), Share("a2", 8050)>>

ShareLists == {<<>>, Halves, Single, NegOnly, DupOnly, DupThenNeg, NegDup, BadTotal}

HighPrice == 2100000000

ErrStep(A) == steps < MaxErrSteps /\ A

NextErr ==
    \/ \E list \in ShareLists, mutable \in BOOLEAN :
           ErrStep(InitCall(ADMIN, list, mutable))
    \/ \E signer \in {ADMIN, "a1"}, list \in {<<>>, Thirds, DupThenNeg, BadTotal} :
           ErrStep(UpdateShares(signer, list))
    \/ \E signer \in {ADMIN, "a1"} : ErrStep(LockContract(signer))
    \/ \E from \in {"a1", "a2"}, to \in {"a1", "a3"}, amount \in {0, 5000, 6000} :
           ErrStep(TransferShares(from, from, to, amount))
    \/ \E signer \in {ADMIN, "a3"} :
           ErrStep(TransferShares(signer, "a1", "a3", 5000))
    \/ \E seller \in {"a1", "a2"}, n \in {0, 1, 5000, 6000}, price \in {0, 2, HighPrice} :
           ErrStep(ListSharesForSale(seller, seller, n, price, "t1"))
    \/ \E signer \in Users, seller \in {"a1", "a2"} :
           ErrStep(CancelListing(signer, seller))
    \/ \E buyer \in {"a1", "a3"}, seller \in {"a1", "a2"}, n \in {0, 1, 5000, 6000} :
           ErrStep(BuyShares(buyer, buyer, seller, n))
    \/ \E rate \in {5000, 5001} :
           ErrStep(SetBuyCommissionRate(PolicyNow.recipient, rate))

SpecErr == Init /\ [][NextErr]_vars

\* The same program with the calls on the commission policy: every setter
\* signed by the first recipient, by the admin and by two users, rates below,
\* at and above the limits, the hand-over of the recipient, and a
\* distribution, which reads the policy.
PolicySigners == {DEFAULT_COMMISSION_ADDRESS, ADMIN, "a1", "a2"}

PolicyRates == {-1, 0, MAX_COMMISSION_BPS, MAX_COMMISSION_BPS + 1}

PolicyStep(A) == steps < MaxPolicySteps /\ A

NextPolicy ==
    \/ PolicyStep(InitCall(ADMIN, Halves, TRUE))
    \/ PolicyStep(Deposit("t1", 1000))
    \/ PolicyStep(DistributeTokens(ADMIN, "t1"))
    \/ \E signer \in PolicySigners, r \in {"a1", "a2"} :
           PolicyStep(SetCommissionRecipient(signer, r))
    \/ \E signer \in PolicySigners, rate \in PolicyRates :
           PolicyStep(SetBuyCommissionRate(signer, rate))
    \/ \E signer \in PolicySigners, rate \in PolicyRates :
           PolicyStep(SetDistributionCommissionRate(signer, rate))

SpecPolicy == Init /\ [][NextPolicy]_vars

\* The same program with the calls that move the pool's tokens, failing ones
\* included: deposits, distributions, withdrawals of nothing, of a part, of
\* the whole allocation and of one unit more, sweeps of nothing, of a part,
\* of more than the unused balance and of more than the balance, and the
\* calls on the share registry that can come before the initialization.
\* a list that passes check_shares with a holder of no units
WithZero == <<Share("a1", 10000), Share("a2", 0)>>

WithdrawTries(shareholder, token) ==
    {0, 100, get_allocation(Cur, shareholder, token),
     get_allocation(Cur, shareholder, token) + 1}

FundsStep(A) == steps < MaxFundsSteps /\ A

NextFunds ==
    \/ \E list \in {Halves, Default, WithZero} : FundsStep(InitCall(ADMIN, list, TRUE))
    \/ \E amount \in {333, 1000} : FundsStep(Deposit("t1", amount))
    \/ \E signer \in {ADMIN, "a1"} : FundsStep(DistributeTokens(signer, "t1"))
    \/ \E shareholder \in {"a1", "a2"}, signer \in {"a1", ADMIN} :
           \E amount \in WithdrawTries(shareholder, "t1") :
               FundsStep(WithdrawAllocation(signer, "t1", shareholder, amount))
    \/ \E signer \in {ADMIN, "a1"}, amount \in {0, 100, 400, 2000} :
           FundsStep(TransferTokens(signer, "t1", "a3", amount))
    \/ \E signer \in {ADMIN, "a1"} : FundsStep(UpdateShares(signer, Thirds))
    \/ FundsStep(TransferShares("a1", "a1", "a2", 5000))

SpecFunds == Init /\ [][NextFunds]_vars

\* ------------------------------------------------- vocabulary of the claims
UnitsOf(sh, a) == IF a \in DOMAIN sh THEN sh[a] ELSE 0

AllocOf(al, a, t) == IF <<a, t>> \in DOMAIN al THEN al[<<a, t>>] ELSE 0

RECURSIVE SumOver(_, _, _, _)
SumOver(al, S, t, acc) ==
    IF S = {} THEN acc
    ELSE LET a == CHOOSE x \in S : TRUE
         IN SumOver(al, S \ {a}, t, acc + AllocOf(al, a, t))

\* the sum of all holders' allocation records of token t
SumAlloc(al, t) == SumOver(al, Addr, t, 0)

TotalOf(ta, t) == IF t \in DOMAIN ta THEN ta[t] ELSE 0

Initialized == config # <<>>

Succeeded(op) == last.op = op /\ last.err = "Ok"

SucceededNext(op) == last'.op = op /\ last'.err = "Ok"

\* --------------------------------------------------------------------- C1
\* C1: once init has succeeded, the unit amounts of all share records sum
\* to exactly 10,000 in every state reached by successful operations.
C1_SharesSumTo10000 ==
    Initialized => SumFun(shares, DOMAIN shares) = TOTAL_SHARES

\* --------------------------------------------------------------------- C2
\* C2: for every token, the allocation records of all holders sum to the
\* token's total-allocation record, an absent record counting as 0.
C2_AllocationsSumToTotal ==
    \A t \in Tokens : SumAlloc(allocation, t) = TotalOf(total_allocation, t)

\* a token has been distributed, partly withdrawn, and units have been traded since
C2_Witness ==
    /\ Succeeded("withdraw_allocation")
    /\ \E t \in Tokens : TotalOf(total_allocation, t) > 0
    /\ \E a \in Users : UnitsOf(shares, a) \notin {0, 3333, 3334, 5000}

\* --------------------------------------------------------------------- C3
\* C3: for every token, the amount allocated to holders never exceeds the
\* pool's balance of that token.
C3_AllocatedWithinBalance ==
    \A t \in Tokens : SumAlloc(allocation, t) <= balance[t][POOL]

\* --------------------------------------------------------------------- C4
\* C4: right after a successful distribute_tokens call for a token, a second
\* call by the same signer for the same token succeeds and leaves every
\* allocation, the per-token totals and every token balance (the pool's and
\* the commission recipient's included) as the first call left them.
C4_SecondDistributeChangesNothing ==
    Succeeded("distribute_tokens")
    => LET second == distribute_tokens(Cur, last.args.signer, last.args.token)
       IN /\ second.err = "Ok"
          /\ second.st.allocation = allocation
          /\ second.st.total_allocation = total_allocation
          /\ second.st.balance = balance

\* --------------------------------------------------------------------- C5
\* what a distribute_tokens call for token t finds in the current state
Distributable(t) == balance[t][POOL] - TotalOf(total_allocation, t)

\* floor(a * b / 10000) for a, b >= 0, by long division on the digits of a
FloorBps(a, b) ==
    LET hi == a \div BPS_DENOMINATOR
        lo == a - hi * BPS_DENOMINATOR
    IN hi * b + (lo * b) \div BPS_DENOMINATOR

DistCommission(t) == FloorBps(Distributable(t), PolicyNow.distribution_rate_bps)

Remainder(t) == Distributable(t) - DistCommission(t)

\* C5: a distribute_tokens call that finds distributable > 0 raises the
\* allocations by exactly remainder = distributable - commission in total,
\* and leaves the pool balance equal to the total allocated.
C5_FullAllocation ==
    [][(SucceededNext("distribute_tokens") /\ Distributable(last'.args.token) > 0)
       => LET t == last'.args.token
          IN /\ SumAlloc(allocation', t) - SumAlloc(allocation, t) = Remainder(t)
             /\ balance'[t][POOL] = SumAlloc(allocation', t)]_vars

\* --------------------------------------------------------------------- C8
\* C8: a successful buy_shares(buyer, seller, n) lowers the seller's units by
\* exactly n (the record going when they reach 0), raises the buyer's by
\* exactly n, and leaves every other holder's units as they were.
C8_BuyMovesExactlyN ==
    [][SucceededNext("buy_shares")
       => LET a == last'.args
          IN /\ UnitsOf(shares', a.seller) = UnitsOf(shares, a.seller) - a.shares_amount
             /\ UnitsOf(shares', a.buyer) = UnitsOf(shares, a.buyer) + a.shares_amount
             /\ (a.seller \in DOMAIN shares') = (UnitsOf(shares', a.seller) # 0)
             /\ a.buyer \in DOMAIN shares'
             /\ \A o \in Addr \ {a.seller, a.buyer} :
                    /\ (o \in DOMAIN shares') = (o \in DOMAIN shares)
                    /\ UnitsOf(shares', o) = UnitsOf(shares, o)]_vars

\* --------------------------------------------------------------------- C6
\* the floor part of holder a in a distribution of token t
HolderFloor(a, t) ==
    IF a \in DOMAIN shares THEN FloorBps(Remainder(t), shares[a]) ELSE 0

RECURSIVE SumFloors(_, _)
SumFloors(S, t) ==
    IF S = {} THEN 0
    ELSE LET a == CHOOSE x \in S : TRUE
         IN HolderFloor(a, t) + SumFloors(S \ {a}, t)

\* what the floor parts leave of the remainder
Dust(t) == Remainder(t) - SumFloors(DOMAIN shares, t)

\* C6: a distribute_tokens call that finds distributable d > 0 transfers
\* c = floor(d * distribution rate / 10000) from the pool to the commission
\* recipient (no transfer when c = 0), and adds floor((d - c) * u / 10000) to
\* the allocation of every holder with u units; one holder receives the dust
\* on top when there is dust, and nothing else is allocated.
C6_SplitOfTheDeposit ==
    [][(SucceededNext("distribute_tokens") /\ Distributable(last'.args.token) > 0)
       => LET t == last'.args.token
              c == DistCommission(t)
              rcp == PolicyNow.recipient
          IN /\ last'.xfers = IF c > 0 THEN <<Xfer(t, POOL, rcp, c)>> ELSE <<>>
             /\ \A a \in Addr :
                    balance'[t][a] = balance[t][a] + (IF a = rcp THEN c ELSE 0)
                                                   - (IF a = POOL THEN c ELSE 0)
             /\ \E h \in DOMAIN shares : \A a \in Addr :
                    AllocOf(allocation', a, t) =
                        AllocOf(allocation, a, t) + HolderFloor(a, t)
                            + (IF a = h /\ Dust(t) > 0 THEN Dust(t) ELSE 0)
             /\ \A a \in Addr, u \in Tokens \ {t} :
                    AllocOf(allocation', a, u) = AllocOf(allocation, a, u)]_vars

\* units 8050/1950, a deposit of 1,000,000,000 and the default rate of 50 bps
C6_Witness ==
    /\ Succeeded("distribute_tokens")
    /\ DOMAIN shares = {"a1", "a2"}
    /\ shares["a1"] = 8050 /\ shares["a2"] = 1950
    /\ LET t == last.args.token
       IN /\ last.xfers = <<Xfer(t, POOL, DEFAULT_COMMISSION_ADDRESS, 5000000)>>
          /\ AllocOf(allocation, "a1", t) = 800975000
          /\ AllocOf(allocation, "a2", t) = 194025000

\* --------------------------------------------------------------------- C7
\* the largest unit amount among the holders of the holder-order sequence
LargestUnits ==
    CHOOSE m \in {UnitsOf(shares, shareholders[i]) : i \in 1..Len(shareholders)} :
        \A i \in 1..Len(shareholders) : UnitsOf(shares, shareholders[i]) <= m

\* the first holder of the sequence that has the largest unit amount
FirstLargest ==
    shareholders[CHOOSE i \in 1..Len(shareholders) :
                     /\ UnitsOf(shares, shareholders[i]) = LargestUnits
                     /\ \A j \in 1..(i - 1) :
                            UnitsOf(shares, shareholders[j]) < LargestUnits]

\* C7: in a distribute_tokens call with dust > 0, the holder with the largest
\* unit amount, and among several such the first of the holder-order sequence
\* as it stands at the call, receives its floor part plus the dust; every
\* other holder receives its floor part only.
C7_DustToFirstLargest ==
    [][(/\ SucceededNext("distribute_tokens")
        /\ Distributable(last'.args.token) > 0
        /\ Dust(last'.args.token) > 0)
       => LET t == last'.args.token
              h == FirstLargest
          IN /\ AllocOf(allocation', h, t) =
                    AllocOf(allocation, h, t) + HolderFloor(h, t) + Dust(t)
             /\ \A a \in Addr \ {h} :
                    AllocOf(allocation', a, t) =
                        AllocOf(allocation, a, t) + HolderFloor(a, t)]_vars

\* two holders tie for the largest amount after a1 left the sequence and was
\* appended again behind a3; the dust went to a3
C7_Witness ==
    /\ Succeeded("distribute_tokens")
    /\ shareholders = <<"a3", "a1">>
    /\ shares["a3"] = shares["a1"]
    /\ LET t == last.args.token
       IN AllocOf(allocation, "a3", t) > AllocOf(allocation, "a1", t)

\* --------------------------------------------------------------------- C9
\* C9: a successful buy_shares of n units listed at price p makes the buyer
\* pay total = n * p of the listing's payment token in two transfers:
\* total - commission to the seller and commission =
\* floor(total * buy rate / 10000) to the commission recipient (a transfer of
\* 0 is not made); the balances change by exactly these transfers.
C9_BuyPayments ==
    [][SucceededNext("buy_shares")
       => LET a == last'.args
              l == listings[a.seller]
              t == l.payment_token
              total == a.shares_amount * l.price_per_share
              c == FloorBps(total, PolicyNow.buy_rate_bps)
              s == total - c
              rcp == PolicyNow.recipient
          IN /\ last'.xfers =
                    (IF s > 0 THEN <<Xfer(t, a.buyer, a.seller, s)>> ELSE <<>>)
                      \o (IF c > 0 THEN <<Xfer(t, a.buyer, rcp, c)>> ELSE <<>>)
             /\ s + c = total
             /\ \A x \in Addr :
                    balance'[t][x] = balance[t][x]
                                       - (IF x = a.buyer THEN total ELSE 0)
                                       + (IF x = a.seller THEN s ELSE 0)
                                       + (IF x = rcp THEN c ELSE 0)
             /\ \A u \in Tokens \ {t} : balance'[u] = balance[u]]_vars

\* 5000 units at price 100 and 150 bps: commission 7,500, seller receives
\* 492,500 (the spec's example with the price divided by 1,000,000)
C9_Witness ==
    /\ Succeeded("buy_shares")
    /\ last.args.shares_amount = 5000
    /\ \E t \in Tokens :
           last.xfers = <<Xfer(t, last.args.buyer, last.args.seller, 492500),
                          Xfer(t, last.args.buyer, DEFAULT_COMMISSION_ADDRESS, 7500)>>

\* -------------------------------------------------------------------- C10
\* C10: after a successful buy_shares of n units from a listing of m units,
\* the seller's listing stays with m - n units at the same price and token
\* when m - n > 0, and is removed together with the seller's entry of the
\* active-listing index when m - n = 0; the listings and index entries of the
\* other sellers are unchanged.
C10_ListingAfterBuy ==
    [][SucceededNext("buy_shares")
       => LET a == last'.args
              l == listings[a.seller]
              rest == l.shares_for_sale - a.shares_amount
          IN /\ rest >= 0
             /\ rest > 0 =>
                    /\ a.seller \in DOMAIN listings'
                    /\ listings'[a.seller] = [l EXCEPT !.shares_for_sale = rest]
                    /\ active_listings' = active_listings
             /\ rest = 0 =>
                    /\ a.seller \notin DOMAIN listings'
                    /\ a.seller \notin Range(active_listings')
                    /\ Range(active_listings') = Range(active_listings) \ {a.seller}
             /\ \A o \in Addr \ {a.seller} :
                    /\ (o \in DOMAIN listings') = (o \in DOMAIN listings)
                    /\ o \in DOMAIN listings => listings'[o] = listings[o]]_vars

\* the last purchase emptied and removed its listing while another seller's
\* listing, reduced by an earlier partial purchase, is still there
C10_Witness ==
    /\ Succeeded("buy_shares")
    /\ last.args.seller \notin DOMAIN listings
    /\ last.args.seller \notin Range(active_listings)
    /\ \E o \in DOMAIN listings :
           /\ listings[o].shares_for_sale \notin {1950, 5000}
           /\ o \in Range(active_listings)

\* ------------------------------------------------ vocabulary of the failures
\* the step is a call of entry point op, whatever it returns
CalledNext(op) == last'.op = op

FailedNext(op, e) == last'.op = op /\ last'.err = e

\* the call of the step is signed by the party a
SignedBy(a) == last'.args.signer = a

RegistryUnchanged == shares' = shares /\ shareholders' = shareholders

ListingsUnchanged == listings' = listings /\ active_listings' = active_listings

\* -------------------------------------------------------------------- C11
\* the error the claim gives a buy of n units by buyer from seller, "none"
\* when it names none
BuyError(buyer, seller, n) ==
    IF n <= 0 THEN "InvalidShareAmount"
    ELSE IF buyer = seller THEN "CannotBuyOwnShares"
    ELSE IF seller \notin DOMAIN listings THEN "NoActiveListing"
    ELSE IF n > listings[seller].shares_for_sale THEN "InsufficientSharesInListing"
    ELSE "none"

\* C11: a buy_shares call authorized by the buyer fails with
\* InvalidShareAmount if units <= 0, else CannotBuyOwnShares if buyer =
\* seller, else NoActiveListing if the seller has no listing, else
\* InsufficientSharesInListing if units exceeds the listed units; each of
\* these failures leaves units, holder order, listings and balances unchanged.
C11_BuyErrors ==
    [][(CalledNext("buy_shares") /\ SignedBy(last'.args.buyer))
       => LET a == last'.args
              e == BuyError(a.buyer, a.seller, a.shares_amount)
          IN e # "none" => /\ last'.err = e
                           /\ RegistryUnchanged
                           /\ ListingsUnchanged
                           /\ balance' = balance]_vars

\* a buy of more units than a live listing offers was refused
C11_Witness ==
    /\ last.op = "buy_shares"
    /\ last.err = "InsufficientSharesInListing"
    /\ last.args.seller \in DOMAIN listings
    /\ last.args.shares_amount > listings[last.args.seller].shares_for_sale

\* -------------------------------------------------------------------- C12
\* C12: in a buy_shares call that passes the checks of C11, the call fails
\* with Overflow when units * price does not fit the integer type; when it
\* fits, the call does not fail with Overflow and total * buy rate fits too,
\* so that the commission arithmetic stays in range.
C12_OverflowReported ==
    [][(/\ CalledNext("buy_shares")
        /\ SignedBy(last'.args.buyer)
        /\ BuyError(last'.args.buyer, last'.args.seller, last'.args.shares_amount) = "none")
       => LET a == last'.args
              p == listings[a.seller].price_per_share
          IN IF ~mul_fits(a.shares_amount, p)
             THEN last'.err = "Overflow"
             ELSE /\ last'.err # "Overflow"
                  /\ mul_fits(a.shares_amount * p, PolicyNow.buy_rate_bps)]_vars

\* -------------------------------------------------------------------- C13
\* the error the claim gives a listing of n units at a price by seller
ListError(seller, n, price) ==
    IF n <= 0 THEN "InvalidShareAmount"
    ELSE IF price <= 0 THEN "InvalidPrice"
    ELSE IF seller \notin DOMAIN shares THEN "NoSharesToSell"
    ELSE IF shares[seller] < n THEN "NoSharesToSell"
    ELSE "none"

\* C13: a list_shares_for_sale call authorized by the seller fails with
\* InvalidShareAmount if units <= 0, with InvalidPrice if price <= 0, with
\* NoSharesToSell if the seller has no share record or holds fewer units (the
\* first of these that applies); otherwise it succeeds, the seller's listing
\* holds exactly the given units, price and token, and no units move.
C13_ListErrorsAndEffect ==
    [][(CalledNext("list_shares_for_sale") /\ SignedBy(last'.args.seller))
       => LET a == last'.args
              e == ListError(a.seller, a.shares_amount, a.price_per_share)
          IN /\ last'.err = (IF e = "none" THEN "Ok" ELSE e)
             /\ RegistryUnchanged
             /\ e # "none" => ListingsUnchanged
             /\ e = "none" =>
                    /\ a.seller \in DOMAIN listings'
                    /\ listings'[a.seller] =
                           [seller |-> a.seller, shares_for_sale |-> a.shares_amount,
                            price_per_share |-> a.price_per_share,
                            payment_token |-> a.payment_token]]_vars

\* a seller listed all the units held and still holds them
C13_Witness ==
    /\ Succeeded("list_shares_for_sale")
    /\ last.args.seller \in DOMAIN listings
    /\ listings[last.args.seller].shares_for_sale = last.args.shares_amount
    /\ UnitsOf(shares, last.args.seller) = last.args.shares_amount

\* -------------------------------------------------------------------- C14
\* the entries of list_all_sales that belong to seller
SalesOf(seller) ==
    {i \in 1..Len(list_all_sales(Cur)) : list_all_sales(Cur)[i].seller = seller}

\* C14: in every state a seller appears in list_all_sales once if it has a
\* listing and not at all otherwise, and right after a successful
\* list_shares_for_sale, whatever listing or cancellation preceded it,
\* get_listing and the seller's entry of list_all_sales are exactly the
\* parameters of that call.
C14_OneListingTheLatest ==
    /\ \A x \in Addr :
           Cardinality(SalesOf(x)) = IF get_listing(Cur, x) # <<>> THEN 1 ELSE 0
    /\ Succeeded("list_shares_for_sale")
       => LET a == last.args
              l == [seller |-> a.seller, shares_for_sale |-> a.shares_amount,
                    price_per_share |-> a.price_per_share,
                    payment_token |-> a.payment_token]
          IN /\ get_listing(Cur, a.seller) = <<l>>
             /\ \A i \in SalesOf(a.seller) : list_all_sales(Cur)[i] = l

\* a seller listed again while its earlier listing stood before another
\* seller's in the index: one entry still, at its old place
C14_Witness ==
    /\ Succeeded("list_shares_for_sale")
    /\ Len(active_listings) = 2
    /\ active_listings[1] = last.args.seller
    /\ Cardinality(SalesOf(last.args.seller)) = 1

\* -------------------------------------------------------------------- C15
\* s without the entries equal to a
Without(s, a) == SelectSeq(s, LAMBDA x : x # a)

\* C15: a cancel_listing call authorized by the seller fails with
\* NoActiveListing when the seller has no listing; a failing call changes
\* nothing; a call succeeds only when signed by the seller, and then removes
\* that seller's listing and index entry and leaves every other listing, the
\* order of the other index entries, all units and all balances unchanged.
C15_CancelOwnListingOnly ==
    [][CalledNext("cancel_listing")
       => LET a == last'.args
          IN /\ (SignedBy(a.seller) /\ a.seller \notin DOMAIN listings)
                    => last'.err = "NoActiveListing"
             /\ last'.err # "Ok" => ListingsUnchanged
             /\ last'.err = "Ok" =>
                    /\ SignedBy(a.seller)
                    /\ a.seller \in DOMAIN listings
                    /\ listings' = [o \in DOMAIN listings \ {a.seller} |-> listings[o]]
                    /\ active_listings' = Without(active_listings, a.seller)
             /\ RegistryUnchanged
             /\ balance' = balance]_vars

\* a seller cancelled while another seller's listing stayed
C15_Witness ==
    /\ Succeeded("cancel_listing")
    /\ last.args.seller \notin DOMAIN listings
    /\ \E o \in DOMAIN listings : o \in Range(active_listings)

\* -------------------------------------------------------------------- C16
\* the error the claim gives a transfer of amount units from `from` to `to`
TransferError(from, to, amount) ==
    IF from = to THEN "CannotTransferToSelf"
    ELSE IF amount <= 0 THEN "InvalidShareAmount"
    ELSE IF from \notin DOMAIN shares THEN "NoSharesToTransfer"
    ELSE IF shares[from] < amount THEN "InsufficientSharesToTransfer"
    ELSE "none"

\* C16: on an initialized contract a transfer_shares call authorized by from
\* fails with CannotTransferToSelf if from = to, else InvalidShareAmount if
\* amount <= 0, else NoSharesToTransfer if from has no record, else
\* InsufficientSharesToTransfer if from holds less than amount; each of these
\* failures leaves the share records and the holder order unchanged.
C16_TransferErrors ==
    [][(CalledNext("transfer_shares") /\ Initialized /\ SignedBy(last'.args.from))
       => LET a == last'.args
              e == TransferError(a.from, a.to, a.amount)
          IN e # "none" => last'.err = e /\ RegistryUnchanged]_vars

\* a holder asked to transfer more units than it holds and was refused
C16_Witness ==
    /\ last.op = "transfer_shares"
    /\ last.err = "InsufficientSharesToTransfer"
    /\ UnitsOf(shares, last.args.from) > 0
    /\ UnitsOf(shares, last.args.from) < last.args.amount

\* -------------------------------------------------------------------- C17
\* C17: a successful transfer_shares(from, to, amount) lowers from's units by
\* amount, removing its record and its entry of the holder order when they
\* reach 0, raises to's units by amount, creating the record and appending to
\* at the end of the holder order when to was no holder, and leaves the other
\* holders' units and the order among the remaining entries unchanged.
C17_TransferMovesUnits ==
    [][SucceededNext("transfer_shares")
       => LET a == last'.args
              emptied == UnitsOf(shares, a.from) = a.amount
              s1 == IF emptied THEN Without(shareholders, a.from) ELSE shareholders
              s2 == IF a.to \notin DOMAIN shares THEN Append(s1, a.to) ELSE s1
          IN /\ UnitsOf(shares', a.from) = UnitsOf(shares, a.from) - a.amount
             /\ (a.from \in DOMAIN shares') = ~emptied
             /\ a.to \in DOMAIN shares'
             /\ shares'[a.to] = UnitsOf(shares, a.to) + a.amount
             /\ \A o \in Addr \ {a.from, a.to} :
                    /\ (o \in DOMAIN shares') = (o \in DOMAIN shares)
                    /\ UnitsOf(shares', o) = UnitsOf(shares, o)
             /\ shareholders' = s2]_vars

\* from gave all its units to a new holder: from left the order, the new
\* holder stands at its end behind a holder that stayed
C17_Witness ==
    /\ Succeeded("transfer_shares")
    /\ last.args.from \notin DOMAIN shares
    /\ last.args.from \notin Range(shareholders)
    /\ Len(shareholders) >= 2
    /\ shareholders[Len(shareholders)] = last.args.to
    /\ shares[last.args.to] = last.args.amount

\* -------------------------------------------------------------------- C18
RECURSIVE ListTotalFrom(_, _)
ListTotalFrom(list, i) ==
    IF i > Len(list) THEN 0 ELSE list[i].share + ListTotalFrom(list, i + 1)

\* the sum of the amounts of a record list
ListTotal(list) == ListTotalFrom(list, 1)

\* record i of the list names a holder that a later record names again
RepeatedLater(list, i) ==
    \E j \in (i + 1)..Len(list) : list[j].shareholder = list[i].shareholder

\* the verdict of the checks taken one whole check after the other
StatedValidation(list) ==
    IF Len(list) = 0 THEN "LowShareCount"
    ELSE IF \E i \in 1..Len(list) : list[i].share < 0 THEN "NegativeShareAmount"
    ELSE IF \E i \in 1..Len(list) : RepeatedLater(list, i) THEN "DuplicateShareholder"
    ELSE IF ListTotal(list) # TOTAL_SHARES THEN "InvalidShareTotal"
    ELSE "Ok"

\* the verdict of the checks taken record by record: the first record that
\* is negative or repeated later decides, negativity being tested first
RecordValidation(list) ==
    LET bad == {i \in 1..Len(list) : list[i].share < 0 \/ RepeatedLater(list, i)}
    IN IF Len(list) = 0 THEN "LowShareCount"
       ELSE IF bad # {}
            THEN LET i == CHOOSE k \in bad : \A o \in bad : k <= o
                 IN IF list[i].share < 0 THEN "NegativeShareAmount"
                    ELSE "DuplicateShareholder"
       ELSE IF ListTotal(list) # TOTAL_SHARES THEN "InvalidShareTotal"
       ELSE "Ok"

\* the next step is an init or update_shares call that gets to validate its
\* list: init on an uninitialized contract, update_shares by the admin of a
\* mutable contract
ValidatesNext ==
    \/ CalledNext("init") /\ ~Initialized
    \/ /\ CalledNext("update_shares")
       /\ Initialized
       /\ SignedBy(config[1].admin)
       /\ config[1].mutable

C19_InitOnce ==
    [][CalledNext("init")
       => /\ Initialized => /\ last'.err = "AlreadyInitialized"
                            /\ config' = config
                            /\ RegistryUnchanged
          /\ last'.err = "Ok" => ~Initialized /\ config' # <<>>
          /\ (~Initialized /\ last'.err # "Ok")
                 => /\ config' = <<>>
                    /\ RegistryUnchanged
                    /\ shareholders' = <<>>
          /\ (~Initialized /\ RecordValidation(last'.args.shares) = "Ok")
                 => last'.err = "Ok"]_vars

\* a second init asking for the other value of the mutable flag was refused
C19_Witness ==
    /\ last.op = "init"
    /\ last.err = "AlreadyInitialized"
    /\ Initialized
    /\ last.args.mutable # config[1].mutable
    /\ shareholders # <<>>

\* -------------------------------------------------------------------- C20
\* C20: once the contract is initialized it stays initialized with the same
\* admin, and once the mutable flag is false it is false after every step.
C20_AdminFixedFlagFalls ==
    [][Initialized
       => /\ config' # <<>>
          /\ config'[1].admin = config[1].admin
          /\ (~config[1].mutable => ~config'[1].mutable)]_vars

\* the flag is false and a later update_shares by the admin met the lock
C20_Witness ==
    /\ Initialized
    /\ ~config[1].mutable
    /\ last.op = "update_shares"
    /\ last.err = "ContractLocked"

\* -------------------------------------------------------------------- C21
\* C21: on an initialized contract whose mutable flag is false every
\* update_shares call fails and leaves the share records and the holder order
\* unchanged, and a call authorized by the admin fails with ContractLocked
\* whatever its record list, a valid one included.
C21_LockedRegistry ==
    [][(CalledNext("update_shares") /\ Initialized /\ ~config[1].mutable)
       => /\ last'.err # "Ok"
          /\ RegistryUnchanged
          /\ SignedBy(config[1].admin) => last'.err = "ContractLocked"]_vars

\* the admin of a locked contract that has holders asked for a valid
\* replacement of the registry and was refused
C21_Witness ==
    /\ last.op = "update_shares"
    /\ last.err = "ContractLocked"
    /\ last.args.signer = config[1].admin
    /\ RecordValidation(last.args.shares) = "Ok"
    /\ shareholders # <<>>
    /\ [i \in 1..Len(shareholders) |-> shareholders[i]]
           # [i \in 1..Len(last.args.shares) |-> last.args.shares[i].shareholder]

\* -------------------------------------------------------------------- C22
\* the identities a record list names
NamedIn(list) == {list[i].shareholder : i \in 1..Len(list)}

\* C22: right after a successful init or update_shares with record list L,
\* list_shares returns L, the holder order is the order of L, each holder of
\* L has the units L gives it, and no other identity has a share record.
C22_RegistryIsTheList ==
    (Succeeded("init") \/ Succeeded("update_shares"))
    => LET L == last.args.shares
       IN /\ list_shares(Cur) = L
          /\ shareholders = [i \in 1..Len(L) |-> L[i].shareholder]
          /\ \A i \in 1..Len(L) : UnitsOf(shares, L[i].shareholder) = L[i].share
          /\ DOMAIN shares = NamedIn(L)

\* update_shares replaced a registry that held an identity the new list
\* does not name: that identity was credited by a distribution, so it was a
\* holder, and it has no share record now
C22_Witness ==
    /\ Succeeded("update_shares")
    /\ \E a \in Users \ NamedIn(last.args.shares) :
           /\ a \notin DOMAIN shares
           /\ \E t \in Tokens : AllocOf(allocation, a, t) > 0

\* -------------------------------------------------------------------- C23
RateSetters == {"set_buy_commission_rate", "set_distribution_commission_rate"}

PolicySetters == RateSetters \cup {"set_commission_recipient"}

RateAllowed(rate) == 0 <= rate /\ rate <= MAX_COMMISSION_BPS

\* the policy with the rate that the setter `op` sets put to `rate`
WithRate(policy, op, rate) ==
    IF op = "set_buy_commission_rate"
    THEN [policy EXCEPT !.buy_rate_bps = rate]
    ELSE [policy EXCEPT !.distribution_rate_bps = rate]

\* C23: in every state both commission rates lie in [0, 5000]; a rate setter
\* called with the authorization of the current recipient fails with
\* InvalidCommissionRate for a rate below 0 or above 5000 and then leaves the
\* policy unchanged, and succeeds for every rate in [0, 5000], setting its rate
\* to the given one and leaving the rest of the policy as it was.
C23_RatesWithinLimits ==
    /\ [](RateAllowed(PolicyNow.buy_rate_bps)
          /\ RateAllowed(PolicyNow.distribution_rate_bps))
    /\ [][(last'.op \in RateSetters /\ SignedBy(PolicyNow.recipient))
          => LET rate == last'.args.new_rate_bps
             IN IF RateAllowed(rate)
                THEN /\ last'.err = "Ok"
                     /\ PolicyNow' = WithRate(PolicyNow, last'.op, rate)
                ELSE /\ last'.err = "InvalidCommissionRate"
                     /\ commission' = commission]_vars

\* the recipient, having put the buy rate at the limit, asked for one basis
\* point more and was refused
C23_Witness ==
    /\ last.op = "set_buy_commission_rate"
    /\ last.err = "InvalidCommissionRate"
    /\ last.args.new_rate_bps = MAX_COMMISSION_BPS + 1
    /\ PolicyNow.buy_rate_bps = MAX_COMMISSION_BPS

FundsUnchanged ==
    /\ allocation' = allocation
    /\ total_allocation' = total_allocation
    /\ balance' = balance

\* the call of the step carries the authorization of a or of the admin
SignedByOrAdmin(a) == SignedBy(a) \/ (Initialized /\ SignedBy(config[1].admin))

\* C25: a withdraw_allocation(token, holder, amount) call authorized by the
\* holder or the admin fails with ZeroWithdrawalAmount if amount <= 0 and
\* with WithdrawalAmountAboveAllocation if amount exceeds the holder's
\* allocation of the token, and with neither error otherwise; every failing
\* call leaves allocations, the per-asset totals and token balances unchanged.
C25_WithdrawErrors ==
    [][CalledNext("withdraw_allocation")
       => LET a == last'.args
              current == AllocOf(allocation, a.shareholder, a.token)
              refusals == {"ZeroWithdrawalAmount", "WithdrawalAmountAboveAllocation"}
          IN /\ SignedByOrAdmin(a.shareholder)
                 => IF a.amount <= 0 THEN last'.err = "ZeroWithdrawalAmount"
                    ELSE IF a.amount > current
                         THEN last'.err = "WithdrawalAmountAboveAllocation"
                    ELSE last'.err \notin refusals
             /\ last'.err # "Ok" => FundsUnchanged]_vars

\* a holder with an allocation asked for one unit more than it and was refused
C25_Witness ==
    /\ last.op = "withdraw_allocation"
    /\ last.err = "WithdrawalAmountAboveAllocation"
    /\ AllocOf(allocation, last.args.shareholder, last.args.token) > 0
    /\ last.args.amount = AllocOf(allocation, last.args.shareholder, last.args.token) + 1

\* -------------------------------------------------------------------- C26
\* C26: a successful withdraw_allocation(token, holder, amount) has
\* 0 < amount <= allocation, lowers the holder's allocation and the total of
\* the token by amount, removes the allocation record when nothing is left,
\* moves amount of the token from the pool to the holder and nothing else,
\* and leaves every other allocation and every other total unchanged.
C26_WithdrawMovesAmount ==
    [][SucceededNext("withdraw_allocation")
       => LET a == last'.args
              k == <<a.shareholder, a.token>>
              current == AllocOf(allocation, a.shareholder, a.token)
          IN /\ 0 < a.amount /\ a.amount <= current
             /\ AllocOf(allocation', a.shareholder, a.token) = current - a.amount
             /\ (a.amount = current) => k \notin DOMAIN allocation'
             /\ TotalOf(total_allocation', a.token)
                    = TotalOf(total_allocation, a.token) - a.amount
             /\ \A o \in Addr, t \in Tokens :
                    <<o, t>> # k => AllocOf(allocation', o, t) = AllocOf(allocation, o, t)
             /\ \A t \in Tokens \ {a.token} :
                    TotalOf(total_allocation', t) = TotalOf(total_allocation, t)
             /\ last'.xfers = <<Xfer(a.token, POOL, a.shareholder, a.amount)>>
             /\ balance' = [balance EXCEPT
                               ![a.token][POOL] = @ - a.amount,
                               ![a.token][a.shareholder] = @ + a.amount]]_vars

\* a holder withdrew its whole allocation while another holder's allocation
\* of the same token stayed
C26_Witness ==
    /\ Succeeded("withdraw_allocation")
    /\ <<last.args.shareholder, last.args.token>> \notin DOMAIN allocation
    /\ \E o \in Users \ {last.args.shareholder} :
           AllocOf(allocation, o, last.args.token) > 0
    /\ TotalOf(total_allocation, last.args.token) > 0

\* -------------------------------------------------------------------- C27
\* C27: a transfer_tokens(token, recipient, amount) call authorized by the
\* admin of an initialized contract fails with ZeroTransferAmount if
\* amount <= 0, else with TransferAmountAboveBalance if amount exceeds the
\* pool's balance, else with TransferAmountAboveUnusedBalance if amount
\* exceeds the balance less the total allocated; otherwise it succeeds, moves
\* amount from the pool to the recipient and nothing else, and leaves every
\* allocation and total unchanged.
C27_SweepUnusedOnly ==
    [][(CalledNext("transfer_tokens") /\ Initialized /\ SignedBy(config[1].admin))
       => LET a == last'.args
              pool_balance == balance[a.token][POOL]
              unused == pool_balance - TotalOf(total_allocation, a.token)
          IN /\ last'.err = IF a.amount <= 0 THEN "ZeroTransferAmount"
                            ELSE IF a.amount > pool_balance
                                 THEN "TransferAmountAboveBalance"
                            ELSE IF a.amount > unused
                                 THEN "TransferAmountAboveUnusedBalance"
                            ELSE "Ok"
             /\ allocation' = allocation
             /\ total_allocation' = total_allocation
             /\ balance' = IF last'.err = "Ok"
                           THEN [balance EXCEPT ![a.token][POOL] = @ - a.amount,
                                                ![a.token][a.recipient] = @ + a.amount]
                           ELSE balance]_vars

\* the pool held the amount asked for, but part of it was allocated
C27_Witness ==
    /\ last.op = "transfer_tokens"
    /\ last.err = "TransferAmountAboveUnusedBalance"
    /\ last.args.amount <= balance[last.args.token][POOL]
    /\ TotalOf(total_allocation, last.args.token) > 0

\* -------------------------------------------------------------------- C28
NeedInit == {"distribute_tokens", "transfer_tokens", "update_shares", "transfer_shares"}

\* C28: on a contract that was not initialized, distribute_tokens,
\* transfer_tokens, update_shares and transfer_shares fail with
\* NotInitialized, whoever signs them, and change nothing.
C28_NotInitialized ==
    [][(last'.op \in NeedInit /\ ~Initialized)
       => /\ last'.err = "NotInitialized"
          /\ UNCHANGED <<config, commission, shares, shareholders, allocation,
                         total_allocation, listings, active_listings, balance>>]_vars

\* a distribution was refused on an uninitialized contract that holds tokens
C28_Witness ==
    /\ last.op = "distribute_tokens"
    /\ last.err = "NotInitialized"
    /\ ~Initialized
    /\ balance["t1"][POOL] > 0

\* -------------------------------------------------------------------- C29
\* C29: a call that returns an error has performed no state write and no
\* token transfer before the check that failed.
C29_ValidateBeforeWrite == last.err # "Ok" => ~last.dirty

\* -------------------------------------------------------------------- C30
\* C30: in every state the active-listing index holds exactly the sellers
\* that have a sale-listing record, each once, and list_all_sales returns one
\* entry for each listing record and no other.
C30_IndexInLockstep ==
    /\ Range(active_listings) = DOMAIN listings
    /\ Len(active_listings) = Cardinality(DOMAIN listings)
    /\ Len(list_all_sales(Cur)) = Cardinality(DOMAIN listings)
    /\ \A i \in 1..Len(list_all_sales(Cur)) :
           list_all_sales(Cur)[i] = listings[active_listings[i]]

\* a purchase filled the listing that stood first in the index while a
\* second seller's listing is live: the index holds the second seller only
C30_Witness ==
    /\ Succeeded("buy_shares")
    /\ last.args.seller \notin DOMAIN listings
    /\ Len(active_listings) = 1
    /\ active_listings[1] # last.args.seller
    /\ active_listings[1] \in DOMAIN listings

\* -------------------------------------------------------------------- C31
\* C31: in every state the holder-order sequence holds exactly the
\* identities that have a share record, each once.
C31_OrderInLockstep ==
    /\ Range(shareholders) = DOMAIN shares
    /\ Len(shareholders) = Cardinality(DOMAIN shares)

\* a purchase took all the units of the seller, who left the order, and made
\* the buyer a holder, who stands at its end
C31_Witness ==
    /\ Succeeded("buy_shares")
    /\ last.args.seller \notin DOMAIN shares
    /\ last.args.seller \notin Range(shareholders)
    /\ shareholders # <<>>
    /\ shareholders[Len(shareholders)] = last.args.buyer
    /\ UnitsOf(shares, last.args.buyer) = last.args.shares_amount

\* -------------------------------------------------------------------- C32
\* C32: in every state every share record has a unit amount of at least 1.
C32_NoEmptyRecord == \A a \in DOMAIN shares : shares[a] >= 1

\* -------------------------------------------------------------------- C33
ShareMovements ==
    {"transfer_shares", "list_shares_for_sale", "cancel_listing", "buy_shares",
     "update_shares"}

\* C33: transfer_shares, list_shares_for_sale, cancel_listing, buy_shares and
\* update_shares leave every allocation record and every per-asset total as
\* they were.
C33_AllocationsStay ==
    [][last'.op \in ShareMovements
       => /\ allocation' = allocation
          /\ total_allocation' = total_allocation]_vars

\* a holder with an allocation gave up all its units: it has no share
\* record and keeps the allocation, and the identity that took the units has
\* none
C33_Witness ==
    /\ last.op \in {"transfer_shares", "buy_shares"}
    /\ last.err = "Ok"
    /\ \E a \in Users, b \in Users, t \in Tokens :
           /\ a \notin DOMAIN shares
           /\ AllocOf(allocation, a, t) > 0
           /\ b \in DOMAIN shares
           /\ AllocOf(allocation, b, t) = 0

\* -------------------------------------------------------------------- C34
\* C34: in every state the seller of each sale listing has a share record
\* with at least the listing's shares_for_sale units.
C34_ListingsBacked ==
    \A seller \in DOMAIN listings :
        /\ seller \in DOMAIN shares
        /\ shares[seller] >= listings[seller].shares_for_sale

\* -------------------------------------------------------------------- C35
\* the step is a list_shares_for_sale or cancel_listing call for seller
ListOrCancelNext(seller) ==
    /\ last'.op \in {"list_shares_for_sale", "cancel_listing"}
    /\ last'.args.seller = seller

\* the step is a successful purchase from seller
BoughtNext(seller) == SucceededNext("buy_shares") /\ last'.args.seller = seller

\* C35: from a seller's list_shares_for_sale to that seller's next list or
\* cancel, the remaining units of the listing are the listed amount less the
\* units bought so far and the units bought never exceed the listed amount.
\* Step by step: a purchase of n units from a listing with m remaining has
\* n <= m and leaves m - n, the listing ending when nothing remains; no other
\* step that is not the seller's list or cancel changes the listing; and
\* without a listing nothing is bought from the seller, and only the
\* seller's list call creates one.
C35_BoughtWithinListed ==
    [][\A seller \in Users :
          IF seller \in DOMAIN listings
          THEN ~ListOrCancelNext(seller)
               => IF BoughtNext(seller)
                  THEN LET m == listings[seller].shares_for_sale
                           n == last'.args.shares_amount
                       IN /\ 0 < n /\ n <= m
                          /\ IF n < m
                             THEN /\ seller \in DOMAIN listings'
                                  /\ listings'[seller] =
                                         [listings[seller] EXCEPT !.shares_for_sale = m - n]
                             ELSE seller \notin DOMAIN listings'
                  ELSE /\ seller \in DOMAIN listings'
                       /\ listings'[seller] = listings[seller]
          ELSE /\ ~BoughtNext(seller)
               /\ seller \in DOMAIN listings'
                      => SucceededNext("list_shares_for_sale") /\ last'.args.seller = seller]_vars

\* a second purchase from a listing that an earlier purchase had reduced
\* (listings are made for 1,950 or 5,000 units) left it live
C35_Witness ==
    /\ Succeeded("buy_shares")
    /\ last.args.seller \in DOMAIN listings
    /\ listings[last.args.seller].shares_for_sale + last.args.shares_amount
           \notin {1950, 5000}

C38_TotalsPositive == \A t \in DOMAIN total_allocation : total_allocation[t] > 0

\* the holders withdrew all that a distribution had allocated of a token,
\* and the token has no total-allocation record
C38_Witness ==
    /\ Succeeded("withdraw_allocation")
    /\ last.args.token \notin DOMAIN total_allocation
    /\ \A a \in Addr : AllocOf(allocation, a, last.args.token) = 0
    /\ shareholders # <<>>

\* -------------------------------------------------------------------- C39
\* C39: in every distribute_tokens call that finds something to distribute
\* the dust, the remainder less the holders' floor parts, is at least 0 and
\* less than the number of holders.
C39_DustBelowHolders ==
    [][(SucceededNext("distribute_tokens") /\ Distributable(last'.args.token) > 0)
       => /\ 0 <= Dust(last'.args.token)
          /\ Dust(last'.args.token) < Cardinality(DOMAIN shares)]_vars

\* -------------------------------------------------------------------- C37
\* C37: a step lowers the units of an identity only if it is a successful
\* transfer_shares from that identity, authorized by it, a successful
\* buy_shares from that identity's live listing, or a successful
\* update_shares authorized by the admin of a mutable contract.
C37_UnitsLoweredByRight ==
    [][\A a \in Users :
          UnitsOf(shares', a) < UnitsOf(shares, a)
          => /\ last'.err = "Ok"
             /\ \/ /\ last'.op = "transfer_shares"
                   /\ last'.args.from = a
                   /\ SignedBy(a)
                \/ /\ last'.op = "buy_shares"
                   /\ last'.args.seller = a
                   /\ a \in DOMAIN listings
                \/ /\ last'.op = "update_shares"
                   /\ Initialized
                   /\ SignedBy(config[1].admin)
                   /\ config[1].mutable]_vars

\* a holder that is not the admin asked for a valid list that gives another
\* holder fewer units, on a mutable contract, and was refused
C37_Witness ==
    /\ last.op = "update_shares"
    /\ last.err = "Unauthorized"
    /\ Initialized
    /\ config[1].mutable
    /\ last.args.signer \in DOMAIN shares
    /\ RecordValidation(last.args.shares) = "Ok"
    /\ \E i \in 1..Len(last.args.shares) :
           /\ last.args.shares[i].shareholder # last.args.signer
           /\ last.args.shares[i].share < UnitsOf(shares, last.args.shares[i].shareholder)

====
